---------------------------- MODULE Spec2Model ----------------------------
(***************************************************************************)
(* Model of 1D_diff_and_adv_geothermal.py: the function geothermal_model   *)
(* (stability gate, operator construction, time marching) and the          *)
(* module-level loop that calls it once per input record.                  *)
(*                                                                         *)
(* Number representations                                                  *)
(*   - The stability coefficients s, vn, c and the entries of the operator *)
(*     A are exact rationals <<numerator, denominator>> in lowest terms.   *)
(*   - The loop clock `time` is an IEEE-754 binary64 value, held as the    *)
(*     integer number of 2^-56 units it equals, in two limbs <<hi, lo>>    *)
(*     of 30 bits; addition rounds to 53 significant bits, ties to even.   *)
(*   - Profile entries (T, new_T, S) are elements of the prime field of    *)
(*     order FieldOrder, the image of the exact values under the ring      *)
(*     homomorphism n/d |-> n * d^-1.  Every equation between exact values *)
(*     holds between their images, so two entries that differ in the model *)
(*     differ in exact arithmetic.                                         *)
(***************************************************************************)
EXTENDS Integers, Sequences, FiniteSets, TLC

(***************************************************************************)
(* Bounds of the model                                                     *)
(***************************************************************************)
\* number of input records the module-level loop iterates over
MaxRecords == 3

\* reinjection rates (tonne/hr) the input column may hold
Rates == {1000, 6300}

\* reinjection rates the operator builder is exercised with
GateRates == {0, 1000, 6300, 45000}

\* reinjection temperatures (deg C) the input column may hold
Temperatures == {50, 150}

(***************************************************************************)
(* State                                                                   *)
(***************************************************************************)
VARIABLES
    pc,               \* position: "caller", "check", "build", "loop", "returned"
    cfg,              \* the material literals p, cT, D of the function body
    records,          \* number of input records the module-level loop has taken
    reinjection_rate, \* argument of the current call
    temperature,      \* argument of the current call
    velocity, s, vn, c,
    T,                \* temperature profile
    A,                \* operator; << >> while not built
    S,                \* supply temperature
    time,             \* loop clock (binary64)
    printed,          \* what the call has printed; << >> when nothing
    output,           \* value returned by the call; << >> is None
    first_output,     \* history: per record, << >> or <<output of its first run>>
    steps,            \* history: loop iterations executed by the current call
    old_T,            \* history: profile at the start of the latest iteration
    stepTime          \* history: clock value the latest iteration ran at

vars == << pc, cfg, records, reinjection_rate, temperature, velocity, s, vn, c,
           T, A, S, time, printed, output, first_output, steps, old_T, stepTime >>

(***************************************************************************)
(* Exact rationals                                                         *)
(***************************************************************************)
Abs(x) == IF x < 0 THEN -x ELSE x

RECURSIVE GCD(_, _)
GCD(a, b) == IF b = 0 THEN a ELSE GCD(b, a % b)

\* n/d in lowest terms with a positive denominator (d # 0)
Rat(n, d) ==
    LET g == GCD(Abs(n), Abs(d))
        sg == IF d < 0 THEN -1 ELSE 1
    IN  << sg * (n \div g), sg * (d \div g) >>

RInt(n) == << n, 1 >>

RAdd(a, b) ==
    LET g == GCD(a[2], b[2])
    IN  Rat(a[1] * (b[2] \div g) + b[1] * (a[2] \div g), (a[2] \div g) * b[2])

RNeg(a) == << -a[1], a[2] >>

RSub(a, b) == RAdd(a, RNeg(b))

RMul(a, b) ==
    LET g1 == GCD(Abs(a[1]), b[2])
        g2 == GCD(Abs(b[1]), a[2])
    IN  Rat((a[1] \div g1) * (b[1] \div g2), (a[2] \div g2) * (b[2] \div g1))

\* a / b for b # 0
RDiv(a, b) == RMul(a, Rat(b[2], b[1]))

\* a > b
RGt(a, b) ==
    LET g == GCD(a[2], b[2])
    IN  a[1] * (b[2] \div g) > b[1] * (a[2] \div g)

RLe(a, b) == ~RGt(a, b)

(***************************************************************************)
(* The prime field the profile is computed in                              *)
(***************************************************************************)
FieldOrder == 2^13 - 1

FMod(x) == ((x % FieldOrder) + FieldOrder) % FieldOrder

FAdd(x, y) == (x + y) % FieldOrder

FMul(x, y) == (x * y) % FieldOrder

RECURSIVE FPow(_, _)
FPow(x, e) ==
    IF e = 0 THEN 1
    ELSE LET h == FPow(x, e \div 2)
             hh == FMul(h, h)
         IN  IF e % 2 = 1 THEN FMul(hh, x) ELSE hh

\* multiplicative inverse of x # 0
FInv(x) == IF x = 1 THEN 1 ELSE FPow(x, FieldOrder - 2)

\* image of the rational r (denominator prime to FieldOrder)
ToField(r) == FMul(FMod(r[1]), FInv(FMod(r[2])))

(***************************************************************************)
(* binary64 values of the loop clock, in units of 2^-56                    *)
(***************************************************************************)
Limb == 2^30

\* the literal 0.1 : 0x1.999999999999ap-4 = 7205759403792794 * 2^-56
dt64 == << 6710886, 429496730 >>

\* an integer n >= 0 as binary64 (exact for the values used)
F64OfInt(n) == << n * 2^26, 0 >>

F64Le(a, b) == a[1] < b[1] \/ (a[1] = b[1] /\ a[2] <= b[2])

\* number of low bits of the unit count that do not fit 53 significant bits
RECURSIVE ExcessBits(_)
ExcessBits(hi) == IF hi < 2^23 THEN 0 ELSE 1 + ExcessBits(hi \div 2)

\* x rounded to 53 significant bits, ties to even
F64Round(x) ==
    LET k    == ExcessBits(x[1])
        q    == 2^k
        r    == x[2] % q
        down == x[2] - r
        up   == (r * 2 > q) \/ (r * 2 = q /\ (down \div q) % 2 = 1)
        lo   == IF up THEN down + q ELSE down
    IN  IF lo >= Limb THEN << x[1] + 1, lo - Limb >> ELSE << x[1], lo >>

\* a + b in binary64 (a, b >= 0)
F64Add(a, b) ==
    LET lo == a[2] + b[2]
        ex == IF lo >= Limb THEN << a[1] + b[1] + 1, lo - Limb >>
                            ELSE << a[1] + b[1], lo >>
    IN  F64Round(ex)

(***************************************************************************)
(* Literals of geothermal_model                                            *)
(***************************************************************************)
dz == 10

totaltime == 10

dt == Rat(1, 10)

\* the material presets of the function body
Preset == [p |-> Rat(100, 100), cT |-> Rat(4186, 1000), D |-> Rat(6, 10)]

z == [i \in 0 .. ((1500 - 1000 + dz - 1) \div dz) - 1 |-> 1000 + i * dz]

nodes == Cardinality(DOMAIN z)

\* variant: the profile array of the previous call is reused when there is one
linspace_reused(start, stop, num) ==
    IF output # << >> THEN output[1]
    ELSE [i \in 0 .. num - 1 |->
            ToField(RAdd(RInt(start), RMul(RInt(i), Rat(stop - start, num - 1))))]

\* np.linspace(150, 250, num=nodes)
linspace(start, stop, num) ==
    [i \in 0 .. num - 1 |->
        ToField(RAdd(RInt(start), RMul(RInt(i), Rat(stop - start, num - 1))))]

\* np.zeros((nodes, nodes))
zeros(n) == [i \in 0 .. n - 1 |-> [j \in 0 .. n - 1 |-> RInt(0)]]

None == << >>

(***************************************************************************)
(* Stability check, lines 76-81                                            *)
(***************************************************************************)
\* variant: the Courant number is compared without being squared
Unstable1_unsquared(cc, vnn) == RGt(cc, RMul(RInt(2), vnn))

\* first condition violated
Unstable1(cc, vnn) == RGt(RMul(cc, cc), RMul(RInt(2), vnn))

\* variant: the second condition is evaluated on s, as the print statement is
Unstable2_on_s(cc, vnn) == RGt(RAdd(s, RDiv(cc, RInt(4))), Rat(5, 10))

\* second condition violated
Unstable2(cc, vnn) == RGt(RAdd(vnn, RDiv(cc, RInt(4))), Rat(5, 10))

\* 0 when both conditions hold, else the number of the condition that stops the run
StabilityVerdict(cc, vnn) ==
    IF Unstable1(cc, vnn) THEN 1
    ELSE IF Unstable2(cc, vnn) THEN 2
    ELSE 0

\* the line printed when condition 1 fails
Print1(cc, ss, vnn) == << "unstable #1:", RMul(cc, cc), ">", RMul(RInt(2), ss) >>

\* the line printed when condition 2 fails
Print2(cc, ss, vnn) == << "unstable #2:", RAdd(ss, RDiv(cc, RInt(4))), ">", Rat(5, 10) >>

(***************************************************************************)
(* Operator construction, lines 85-93                                      *)
(***************************************************************************)
\* variant: the coefficients of columns i+1 and i-1 are exchanged
StencilRow_swapped(row, i, ss, cc) ==
    LET r1 == [row EXCEPT ![i - 1] = RSub(ss, RMul(Rat(3, 8), cc))]
        r2 == [r1 EXCEPT ![i] =
                  RSub(RSub(RInt(1), RMul(RInt(2), ss)), RMul(Rat(3, 8), cc))]
        r3 == [r2 EXCEPT ![i + 1] = RAdd(ss, RMul(Rat(7, 8), cc))]
    IN  [r3 EXCEPT ![i - 2] = RMul(Rat(-1, 8), cc)]

\* variant: the upstream weight is 5/8 instead of 7/8
StencilRow_weight(row, i, ss, cc) ==
    LET r1 == [row EXCEPT ![i + 1] = RSub(ss, RMul(Rat(3, 8), cc))]
        r2 == [r1 EXCEPT ![i] =
                  RSub(RSub(RInt(1), RMul(RInt(2), ss)), RMul(Rat(3, 8), cc))]
        r3 == [r2 EXCEPT ![i - 1] = RAdd(ss, RMul(Rat(5, 8), cc))]
    IN  [r3 EXCEPT ![i - 2] = RMul(Rat(-1, 8), cc)]

\* row i after the four assignments of loop iteration i
StencilRow(row, i, ss, cc) ==
    LET r1 == [row EXCEPT ![i + 1] = RSub(ss, RMul(Rat(3, 8), cc))]
        r2 == [r1 EXCEPT ![i] =
                  RSub(RSub(RInt(1), RMul(RInt(2), ss)), RMul(Rat(3, 8), cc))]
        r3 == [r2 EXCEPT ![i - 1] = RAdd(ss, RMul(Rat(7, 8), cc))]
    IN  [r3 EXCEPT ![i - 2] = RMul(Rat(-1, 8), cc)]

\* range(lo, hi)
range(lo, hi) == lo .. hi - 1

\* the matrix after the loop: iteration i writes row i only
StencilRows(M, n, ss, cc) ==
    [i \in DOMAIN M |->
        IF i \in range(2, n - 1) THEN StencilRow(M[i], i, ss, cc) ELSE M[i]]

BuildA(n, ss, cc) ==
    LET M == StencilRows(zeros(n), n, ss, cc)
    IN  [M EXCEPT ![0][0] = RInt(1), ![1][1] = RInt(1), ![n - 1][n - 1] = RInt(1)]

(***************************************************************************)
(* One time step, lines 103-105                                            *)
(***************************************************************************)
\* sum of row[j] * v[j] for j in lo .. hi
RECURSIVE RowDot(_, _, _, _)
RowDot(row, v, lo, hi) ==
    IF lo > hi THEN 0
    ELSE IF lo = hi
         THEN (IF row[lo][1] = 0 THEN 0 ELSE FMul(ToField(row[lo]), v[lo]))
         ELSE LET mid == (lo + hi) \div 2
              IN  FAdd(RowDot(row, v, lo, mid), RowDot(row, v, mid + 1, hi))

\* np.dot(M, v)
dot(M, v) == [i \in DOMAIN M |-> RowDot(M[i], v, 0, Cardinality(DOMAIN v) - 1)]

\* v[lo:hi] = x
SliceAssign(v, lo, hi, x) ==
    [i \in DOMAIN v |-> IF lo <= i /\ i < hi THEN x ELSE v[i]]

\* the profile after one iteration of the loop body
StepProfile(M, v, x) ==
    LET new_T == dot(M, v)
        copy  == [i \in DOMAIN v |-> FMul(new_T[i], 1)]
    IN  SliceAssign(copy, 1, 3, x)

\* variant: the loop stops one increment early
LoopCondition_early(t) == F64Le(F64Add(t, dt64), F64OfInt(totaltime))

\* while time <= totaltime
LoopCondition(t) == F64Le(t, F64OfInt(totaltime))

(***************************************************************************)
(* Actions                                                                 *)
(***************************************************************************)
Init ==
    /\ pc = "caller"
    /\ cfg = Preset
    /\ records = 0
    /\ reinjection_rate = 0
    /\ temperature = 0
    /\ velocity = RInt(0)
    /\ s = RInt(0)
    /\ vn = RInt(0)
    /\ c = RInt(0)
    /\ T = << >>
    /\ A = << >>
    /\ S = 0
    /\ time = << 0, 0 >>
    /\ printed = << >>
    /\ output = None
    /\ first_output = [r \in (Rates \cup GateRates) \X Temperatures |-> << >>]
    /\ steps = 0
    /\ old_T = << >>
    /\ stepTime = << 0, 0 >>

\* the module-level loop takes the next record and calls geothermal_model;
\* the body runs up to the stability check (lines 127-128, 40-64)
Call(rate, temp) ==
    /\ pc = "caller"
    /\ records < MaxRecords
    /\ records' = records + 1
    /\ reinjection_rate' = rate
    /\ temperature' = temp
    /\ velocity' = RDiv(RDiv(RDiv(RInt(rate), RInt(60)), RInt(60)), Rat(5, 10))
    /\ T' = linspace(150, 250, nodes)
    /\ s' = RDiv(RMul(dt, cfg.D), RMul(RMul(RInt(dz * dz), cfg.p), cfg.cT))
    /\ vn' = RDiv(RMul(dt, cfg.D), RInt(dz * dz))
    /\ c' = RMul(dt, RDiv(velocity', RInt(dz)))
    /\ A' = << >>
    /\ printed' = << >>
    /\ output' = None
    /\ steps' = 0
    /\ old_T' = << >>
    /\ pc' = "check"
    /\ UNCHANGED << cfg, S, time, first_output, stepTime >>

\* variant: a failed check prints its line but the call carries on
StabilityCheck_falls_through ==
    /\ pc = "check"
    /\ LET verdict == StabilityVerdict(c, vn)
       IN  printed' = CASE verdict = 1 -> Print1(c, s, vn)
                        [] verdict = 2 -> Print2(c, s, vn)
                        [] OTHER -> << >>
    /\ pc' = "build"
    /\ output' = None
    /\ UNCHANGED << cfg, records, reinjection_rate, temperature, velocity, s, vn, c,
                    T, A, S, time, first_output, steps, old_T, stepTime >>

\* lines 76-81
StabilityCheck ==
    /\ pc = "check"
    /\ LET verdict == StabilityVerdict(c, vn)
       IN  /\ printed' = CASE verdict = 1 -> Print1(c, s, vn)
                           [] verdict = 2 -> Print2(c, s, vn)
                           [] OTHER -> << >>
           /\ pc' = IF verdict = 0 THEN "build" ELSE "returned"
    /\ output' = None
    /\ UNCHANGED << cfg, records, reinjection_rate, temperature, velocity, s, vn, c,
                    T, A, S, time, first_output, steps, old_T, stepTime >>

\* lines 85-101
BuildOperator ==
    /\ pc = "build"
    /\ A' = BuildA(nodes, s, c)
    /\ S' = ToField(RInt(temperature))
    /\ time' = << 0, 0 >>
    /\ pc' = "loop"
    /\ UNCHANGED << cfg, records, reinjection_rate, temperature, velocity, s, vn, c,
                    T, printed, output, first_output, steps, old_T, stepTime >>

\* one iteration of the loop, lines 102-106
Step ==
    /\ pc = "loop"
    /\ LoopCondition(time)
    /\ T' = StepProfile(A, T, S)
    /\ time' = F64Add(time, dt64)
    /\ steps' = steps + 1
    /\ old_T' = T
    /\ stepTime' = time
    /\ UNCHANGED << pc, cfg, records, reinjection_rate, temperature, velocity,
                    s, vn, c, A, S, printed, output, first_output >>

\* loop exit and line 108
Return ==
    /\ pc = "loop"
    /\ ~LoopCondition(time)
    /\ output' = << T, z >>
    /\ pc' = "returned"
    /\ UNCHANGED << cfg, records, reinjection_rate, temperature, velocity, s, vn, c,
                    T, A, S, time, printed, first_output, steps, old_T, stepTime >>

\* the module-level loop receives the output (lines 128-131)
Receive ==
    /\ pc = "returned"
    /\ first_output' =
          LET r == << reinjection_rate, temperature >>
          IN  IF first_output[r] = << >>
              THEN [first_output EXCEPT ![r] = << output >>]
              ELSE first_output
    /\ pc' = "caller"
    /\ UNCHANGED << cfg, records, reinjection_rate, temperature, velocity, s, vn, c,
                    T, A, S, time, printed, output, steps, old_T, stepTime >>

Next ==
    \/ \E rate \in Rates, temp \in Temperatures : Call(rate, temp)
    \/ StabilityCheck
    \/ BuildOperator
    \/ Step
    \/ Return
    \/ Receive

Spec == Init /\ [][Next]_vars

(***************************************************************************)
(* The operator builder (lines 45-93) over other material literals         *)
(***************************************************************************)
Conductivities == {Rat(6, 10), RInt(450), RInt(600)}

SpecificHeats == {Rat(4186, 1000), Rat(1, 2)}

Densities == {RInt(1), RInt(2)}

OperatorInit ==
    /\ pc = "caller"
    /\ cfg \in [p : Densities, cT : SpecificHeats, D : Conductivities]
    /\ records = 0
    /\ reinjection_rate = 0
    /\ temperature = 0
    /\ velocity = RInt(0)
    /\ s = RInt(0)
    /\ vn = RInt(0)
    /\ c = RInt(0)
    /\ T = << >>
    /\ A = << >>
    /\ S = 0
    /\ time = << 0, 0 >>
    /\ printed = << >>
    /\ output = None
    /\ first_output = [r \in (Rates \cup GateRates) \X Temperatures |-> << >>]
    /\ steps = 0
    /\ old_T = << >>
    /\ stepTime = << 0, 0 >>

OperatorNext ==
    \/ \E rate \in GateRates, temp \in Temperatures : Call(rate, temp)
    \/ StabilityCheck
    \/ BuildOperator

OperatorSpec == OperatorInit /\ [][OperatorNext]_vars

(***************************************************************************)
(* Properties                                                              *)
(***************************************************************************)
half == Rat(1, 2)

\* the call has ended at one of the two early returns
Rejected == pc = "returned" /\ output = None

\* the call has passed the stability check
Accepted == pc \in {"build", "loop"} \/ (pc = "returned" /\ output # None)

\* the coefficients as section 4.1 of the specification writes them
area == Rat(1, 2)

spec_velocity == RDiv(RDiv(RInt(reinjection_rate), RInt(3600)), area)

courant_number == RDiv(RMul(dt, spec_velocity), RInt(dz))

von_neumann_number == RDiv(RMul(dt, cfg.D), RInt(dz * dz))

diffusion_number == RDiv(RMul(dt, cfg.D), RMul(RInt(dz * dz), RMul(cfg.p, cfg.cT)))

Condition1 == RLe(RMul(courant_number, courant_number), RMul(RInt(2), von_neumann_number))

Condition2 == RLe(RAdd(von_neumann_number, RDiv(courant_number, RInt(4))), half)

\* C1: once a run has executed at least one time step, profile entries 0 and 1
\* both equal the target reinjection temperature.
C1_InletPinned ==
    (pc \in {"loop", "returned"} /\ steps >= 1) => (T[0] = S /\ T[1] = S)

\* C2: a rejected call returns None with no operator built and no time step
\* executed; an accepted call returns the pair (profile, grid) with a profile
\* of as many entries as the grid has nodes.
C2_GateOutcome ==
    pc = "returned" =>
        IF ~(Condition1 /\ Condition2)
        THEN output = None /\ DOMAIN A = {} /\ steps = 0
        ELSE /\ Len(output) = 2
             /\ output[2] = z
             /\ Cardinality(DOMAIN output[1]) = nodes
             /\ Cardinality(DOMAIN output[1]) = Cardinality(DOMAIN output[2])

C2_Witness == pc = "returned" /\ ~Condition1 /\ output = None

\* C3: the stability check lets a call through exactly when
\* courant_number^2 <= 2 * von_neumann_number and
\* von_neumann_number + courant_number / 4 <= 0.5.
C3_GateIff ==
    /\ Accepted => (Condition1 /\ Condition2)
    /\ Rejected => ~(Condition1 /\ Condition2)

C3_Witness == Rejected /\ Condition1 /\ ~Condition2 /\ reinjection_rate > 0

\* C4: a rejected call prints the number of the failed condition and the two
\* sides of the violated inequality as they were compared.
C4_ReportedValues ==
    Rejected =>
        IF ~Condition1
        THEN printed = << "unstable #1:",
                          RMul(courant_number, courant_number), ">",
                          RMul(RInt(2), von_neumann_number) >>
        ELSE printed = << "unstable #2:",
                          RAdd(von_neumann_number, RDiv(courant_number, RInt(4))),
                          ">", half >>

ExpectedEntry(i, j, up, mid, low, far) ==
    IF i \in {0, 1, nodes - 1}
    THEN (IF j = i THEN RInt(1) ELSE RInt(0))
    ELSE CASE j = i + 1 -> up
           [] j = i     -> mid
           [] j = i - 1 -> low
           [] j = i - 2 -> far
           [] OTHER     -> RInt(0)

\* C6: the operator built has identity rows 0, 1 and N-1, and in every row i of
\* 2 .. N-2 the four stencil coefficients at columns i+1, i, i-1, i-2 and 0
\* in every other column.
C6_OperatorEntries ==
    DOMAIN A # {} =>
        LET up  == RSub(diffusion_number, RMul(Rat(3, 8), courant_number))
            mid == RSub(RSub(RInt(1), RMul(RInt(2), diffusion_number)),
                        RMul(Rat(3, 8), courant_number))
            low == RAdd(diffusion_number, RMul(Rat(7, 8), courant_number))
            far == RMul(Rat(-1, 8), courant_number)
        IN  /\ DOMAIN A = 0 .. nodes - 1
            /\ \A i \in 0 .. nodes - 1 :
                  /\ DOMAIN A[i] = 0 .. nodes - 1
                  /\ \A j \in 0 .. nodes - 1 :
                        A[i][j] = ExpectedEntry(i, j, up, mid, low, far)

C6_Witness == DOMAIN A # {} /\ c # RInt(0) /\ A[2][0] # RInt(0)

\* exact sum of row[lo .. hi]
RECURSIVE RowSum(_, _, _)
RowSum(row, lo, hi) ==
    IF lo > hi THEN RInt(0)
    ELSE IF lo = hi THEN row[lo]
         ELSE LET mid == (lo + hi) \div 2
              IN  RAdd(RowSum(row, lo, mid), RowSum(row, mid + 1, hi))

\* C7: the entries of every interior row of the operator sum to 1.
C7_RowsSumToOne ==
    DOMAIN A # {} =>
        \A i \in 2 .. nodes - 2 : RowSum(A[i], 0, nodes - 1) = RInt(1)

C7_Witness == DOMAIN A # {} /\ c # RInt(0) /\ cfg # Preset

\* horizon / dt + 1
ExpectedSteps == RAdd(RDiv(RInt(totaltime), dt), RInt(1))

\* C8: the loop of every accepted call ends after exactly horizon/dt + 1
\* iterations: it goes on while fewer have run, stops once that many have,
\* and no iteration runs at a clock value beyond the horizon.
C8_LoopRunsExpectedSteps ==
    /\ steps >= 1 => F64Le(stepTime, F64OfInt(totaltime))
    /\ pc = "loop" =>
          (F64Le(time, F64OfInt(totaltime)) <=> RGt(ExpectedSteps, RInt(steps)))
    /\ (pc = "returned" /\ output # None) => RInt(steps) = ExpectedSteps

C8_Witness == pc = "returned" /\ output # None /\ steps = 101

\* C9: a call for a record that was simulated before returns what the first
\* call for that record returned, whatever was simulated in between.
C9_SameInputSameOutput ==
    LET r == << reinjection_rate, temperature >>
    IN  (pc = "returned" /\ first_output[r] # << >>) => first_output[r] = << output >>

C9_Witness ==
    LET r == << reinjection_rate, temperature >>
    IN  /\ pc = "returned"
        /\ output # None
        /\ first_output[r] # << >>
        /\ \E q \in Rates \X Temperatures :
              q # r /\ first_output[q] # << >> /\ first_output[q] # << None >>

\* C10: after each iteration, entries 2 .. N-1 are those of the operator
\* applied to the profile the iteration started from, and entries 0 and 1
\* hold the target temperature.
C10_StepFromOldProfile ==
    (pc = "loop" /\ steps >= 1) =>
        /\ \A i \in 2 .. nodes - 1 : T[i] = dot(A, old_T)[i]
        /\ T[0] = S
        /\ T[1] = S

=============================================================================
